---- MODULE Spec2Model ----
(***************************************************************************)
(* Model of src/server.js: the donation ledger of the fundraiser server.   *)
(* Three routes share one Prisma store and one socket.io channel:          *)
(*   GET /                  aggregate + recent list                        *)
(*   POST /donate           create a pending donation                      *)
(*   POST /paystack/webhook verify signature, mark success, broadcast      *)
(* Every handler is an async function: the code between two awaits runs    *)
(* atomically on the event loop, and each awaited store call is one atomic *)
(* step of the database.  One action per such segment.                     *)
(***************************************************************************)
EXTENDS Integers, Sequences, FiniteSets, TLC

\* ---------------------------------------------------------------- bounds
NumWebhooks == 2     \* webhook requests handled in one run
NumDonates == 2      \* POST /donate requests handled in one run
NumGets == 1         \* GET / requests handled in one run
MaxTime == 2         \* Date.now() ranges over 1..MaxTime
RandSuffixes == 1    \* Math.floor(Math.random() * 10000) ranges over 0..RandSuffixes-1
NumSessions == 2     \* viewer sockets opened in one run
SeedRows == 52       \* rows a store may hold when the server starts
SeedTied == 4        \* rows of a start-up store created two at a time

\* ------------------------------------------------------- JavaScript values
Undefined == [t |-> "undefined"]
Null == [t |-> "null"]
NaN == [t |-> "NaN"]
Num(n) == [t |-> "number", n |-> n]
Str(s) == [t |-> "string", s |-> s]

DigitChars == <<"0", "1", "2", "3", "4", "5", "6", "7", "8", "9">>
IsDigit(c) == \E i \in 1..10 : DigitChars[i] = c
DigitVal(c) == (CHOOSE i \in 1..10 : DigitChars[i] = c) - 1

RECURSIVE DigitsValue(_)
DigitsValue(s) ==
    IF Len(s) = 0 THEN 0
    ELSE 10 * DigitsValue(SubSeq(s, 1, Len(s) - 1)) + DigitVal(s[Len(s)])

RECURSIVE DigitPrefixLen(_)
DigitPrefixLen(s) ==
    IF Len(s) = 0 \/ ~IsDigit(Head(s)) THEN 0 ELSE 1 + DigitPrefixLen(Tail(s))

\* a numeric string may start with a minus sign
Sign(s) == IF Len(s) > 0 /\ Head(s) = "-" THEN -1 ELSE 1
Unsigned(s) == IF Len(s) > 0 /\ Head(s) = "-" THEN Tail(s) ELSE s

\* !v is ~Truthy(v)
Truthy(v) ==
    CASE v.t = "undefined" -> FALSE
      [] v.t = "null" -> FALSE
      [] v.t = "NaN" -> FALSE
      [] v.t = "number" -> v.n # 0
      [] v.t = "string" -> Len(v.s) > 0

\* the numeric coercion of the relational operator <
ToNumber(v) ==
    CASE v.t = "undefined" -> NaN
      [] v.t = "null" -> Num(0)
      [] v.t = "NaN" -> NaN
      [] v.t = "number" -> v
      [] v.t = "string" ->
            IF Len(v.s) = 0 THEN Num(0)
            ELSE IF Len(Unsigned(v.s)) > 0 /\ DigitPrefixLen(Unsigned(v.s)) = Len(Unsigned(v.s))
            THEN Num(Sign(v.s) * DigitsValue(Unsigned(v.s)))
            ELSE NaN

\* v < k for a number k: false whenever the coercion is NaN
LessThan(v, k) == ToNumber(v).t = "number" /\ ToNumber(v).n < k

\* parseFloat: the longest numeric prefix, NaN when there is none
ParseFloat(v) ==
    CASE v.t = "number" -> v
      [] v.t = "string" ->
            IF DigitPrefixLen(Unsigned(v.s)) = 0 THEN NaN
            ELSE Num(Sign(v.s) * DigitsValue(SubSeq(Unsigned(v.s), 1,
                                                    DigitPrefixLen(Unsigned(v.s)))))
      [] OTHER -> NaN

\* a || b
OrElse(a, b) == IF Truthy(a) THEN a ELSE b


\* v == w on values of the kinds that meet in this program (string, undefined)
LooseEq(v, w) == v.t = w.t /\ v = w

\* ------------------------------------------------------ program constants
MinDonation == 100          \* amount < 100 is refused
RandomRange == 10000        \* Math.random() * 10000
RecentTake == 50            \* take: 50

\* ------------------------------------------------------------- references
\* the values of Math.floor(Math.random() * 10000) that are drawn
RandomSuffixes == {r \in 0..(RandomRange - 1) : r < RandSuffixes}

\* 'RAMADAN-' + Date.now() + '-' + Math.floor(Math.random() * 10000)
MakeReference(time, rnd) == [prefix |-> "RAMADAN-", time |-> time, rnd |-> rnd]

\* a reference of some other merchant integration: never issued by /donate
ForeignRef == [prefix |-> "OTHER-", time |-> 0, rnd |-> 0]

\* --------------------------------------------------------------- requests
EmailA == Str(<<"a", "@", "x">>)
EmailB == Str(<<"b", "@", "x">>)
NameAli == Str(<<"A", "l", "i">>)
Anonymous == Str(<<"A", "n", "o", "n", "y", "m", "o", "u", "s">>)
Dua == Str(<<"d", "u", "a">>)

\* req.body of POST /donate: a number and a numeric string at the minimum,
\* four bodies that lines 80-81 refuse, and a string that is no number but
\* starts like one
DonateBodies ==
    { [email |-> EmailA, amount |-> Num(500), name |-> NameAli, comment |-> Dua],
      [email |-> EmailB, amount |-> Str(<<"1", "0", "0">>), name |-> Undefined, comment |-> Str(<<>>)],
      [email |-> EmailA, amount |-> Num(99), name |-> NameAli, comment |-> Undefined],
      [email |-> EmailA, amount |-> Undefined, name |-> Undefined, comment |-> Undefined],
      [email |-> Undefined, amount |-> Num(500), name |-> NameAli, comment |-> Undefined],
      [email |-> Str(<<>>), amount |-> Num(500), name |-> Undefined, comment |-> Undefined],
      [email |-> EmailB, amount |-> Str(<<"-", "5", "0", "x">>), name |-> Undefined, comment |-> Undefined] }

\* the provider's key and a key the provider does not hold
ProviderKey == Str(<<"s", "k">>)
ForgedKey == Str(<<"x", "k">>)

\* JSON.stringify(req.body): the members in order; a member whose value is
\* undefined is omitted from the text
JsonStringify(body) ==
    IF body.data.t = "undefined" THEN <<"event", body.event>>
    ELSE <<"event", body.event, "data.reference", body.data.reference,
           "data.amount", body.data.amount>>

\* crypto.createHmac('sha512', key).update(msg).digest('hex'): a keyed
\* digest, distinct for distinct (key, message); a missing key throws
HmacThrows(key) == key.t # "string"
Hmac(key, msg) == [t |-> "string", s |-> <<"hmac-sha512", key.s, msg>>]


\* ------------------------------------------------------------------ state
VARIABLES
    donations,   \* rows of the donation table, in insertion order
    events,      \* payloads passed to io.emit('new_donation', ...), in order
    now,         \* Date.now()
    secret,      \* process.env.PAYSTACK_SECRET_KEY
    wh,          \* webhook handler invocations: their position and locals
    dn,          \* /donate handler invocations
    gs,          \* GET / handler invocations
    sockets,     \* the viewers' sockets of the socket.io server: new, connected, closed
    received     \* the 'new_donation' payloads sent to each socket, in order

vars == <<donations, events, now, secret, wh, dn, gs, sockets, received>>

Webhooks == 1..NumWebhooks
Donates == 1..NumDonates
Gets == 1..NumGets
Sessions == 1..NumSessions

NoRecord == [t |-> "undefined"]
NoRef == [prefix |-> "", time |-> 0, rnd |-> 0]

IdleWebhook ==
    [pc |-> "idle", body |-> Undefined, sig |-> Undefined, reference |-> NoRef,
     updatedDonation |-> NoRecord, total |-> Undefined, res |-> 0, message |-> ""]
IdleDonate ==
    [pc |-> "idle", body |-> Undefined, reference |-> NoRef, res |-> 0,
     json |-> Undefined]
IdleGet ==
    [pc |-> "idle", total |-> Undefined, recentDonations |-> <<>>, res |-> 0,
     raised |-> Undefined]

Init ==
    /\ donations = <<>>
    /\ events = <<>>
    /\ now = 1
    /\ secret \in {ProviderKey, Undefined}
    /\ wh = [h \in Webhooks |-> IdleWebhook]
    /\ dn = [d \in Donates |-> IdleDonate]
    /\ gs = [g \in Gets |-> IdleGet]
    /\ sockets = [s \in Sessions |-> "new"]
    /\ received = [s \in Sessions |-> <<>>]

Min(a, b) == IF a < b THEN a ELSE b

\* every order of the rows ix
OrdersOf(ix) ==
    { f \in [1..Cardinality(ix) -> ix] :
        \A a, b \in 1..Cardinality(ix) : a # b => f[a] # f[b] }

\* a createdAt of the rows ix with at most half of them newer and at most
\* half of them older
MiddleTime(rows, ix) ==
    CHOOSE t \in {rows[i].createdAt : i \in ix} :
        /\ 2 * Cardinality({i \in ix : rows[i].createdAt > t}) <= Cardinality(ix)
        /\ 2 * Cardinality({i \in ix : rows[i].createdAt < t}) <= Cardinality(ix)

\* orderBy: {createdAt: 'desc'}: every order of the rows ix in which no row
\* comes before a newer one; rows of equal createdAt come in any order
RECURSIVE OrderByCreatedAtDesc(_, _)
OrderByCreatedAtDesc(rows, ix) ==
    IF ix = {} THEN {<<>>}
    ELSE LET t == MiddleTime(rows, ix)
             newer == OrderByCreatedAtDesc(rows, {i \in ix : rows[i].createdAt > t})
             same == OrdersOf({i \in ix : rows[i].createdAt = t})
             older == OrderByCreatedAtDesc(rows, {i \in ix : rows[i].createdAt < t})
         IN { a \o b \o c : a \in newer, b \in same, c \in older }

\* take: k, on the rows ix in that order
TakeRecent(rows, ix, k) ==
    { [j \in 1..Min(k, Len(order)) |-> rows[order[j]]] :
        order \in OrderByCreatedAtDesc(rows, ix) }

\* The store outlives the server process: at start-up it may hold the rows
\* of earlier runs.  A stored row number i of an earlier run, created at time i
SeedRow(i, paid, tied) ==
    [amount |-> 100 + i, email |-> EmailA, donorName |-> Anonymous, comment |-> Null,
     reference |-> MakeReference(i, 0),
     status |-> IF paid THEN "success" ELSE "pending",
     createdAt |-> IF tied THEN (i + 1) \div 2 ELSE i]

\* every m-th row is still pending (0: none is)
SeedGaps == {0, 1, 2, 26, 30}

\* stores of up to SeedRows rows created at distinct times, and small stores
\* whose rows were created two at a time
SeedStores ==
    { [i \in 1..n |-> SeedRow(i, m = 0 \/ i % m # 0, FALSE)] :
        n \in 0..SeedRows, m \in SeedGaps }
    \cup { [i \in 1..n |-> SeedRow(i, TRUE, TRUE)] : n \in 0..Min(SeedTied, SeedRows) }

\* the server starts on a store that already holds rows
InitSeeded ==
    /\ donations \in SeedStores
    /\ events = <<>>
    /\ now = SeedRows + 1
    /\ secret \in {ProviderKey, Undefined}
    /\ wh = [h \in Webhooks |-> IdleWebhook]
    /\ dn = [d \in Donates |-> IdleDonate]
    /\ gs = [g \in Gets |-> IdleGet]
    /\ sockets = [s \in Sessions |-> "new"]
    /\ received = [s \in Sessions |-> <<>>]

\* ------------------------------------------------------------ the store
StoredRefs == {donations[i].reference : i \in DOMAIN donations}
RowOf(ref) == CHOOSE i \in DOMAIN donations : donations[i].reference = ref

\* AggregateSum without the where clause: every row is summed
RECURSIVE AggregateSumAll(_)
AggregateSumAll(rows) ==
    IF Len(rows) = 0 THEN Null
    ELSE IF Len(rows) = 1 THEN Num(rows[1].amount)
    ELSE LET h == Len(rows) \div 2
             a == AggregateSumAll(SubSeq(rows, 1, h))
             b == AggregateSumAll(SubSeq(rows, h + 1, Len(rows)))
         IN Num(a.n + b.n)

\* prisma.donation.aggregate({_sum: {amount: true}, where: {status: 'success'}})
\* _sum.amount is null when no row matches; the sum of a table is the sum of
\* its two halves
RECURSIVE AggregateSum(_)
AggregateSum(rows) ==
    IF Len(rows) = 0 THEN Null
    ELSE IF Len(rows) = 1
    THEN IF rows[1].status = "success" THEN Num(rows[1].amount) ELSE Null
    ELSE LET h == Len(rows) \div 2
             a == AggregateSum(SubSeq(rows, 1, h))
             b == AggregateSum(SubSeq(rows, h + 1, Len(rows)))
         IN IF a.t = "null" THEN b
            ELSE IF b.t = "null" THEN a
            ELSE Num(a.n + b.n)

\* prisma.donation.findMany({where: {status: 'success'},
\*                           orderBy: {createdAt: 'desc'}, take: 50}):
\* every answer the database may give; rows of equal createdAt come in any order
SuccessRows == {i \in DOMAIN donations : donations[i].status = "success"}

\* FindManyRecent without take: every success row is returned
FindManyNoTake == TakeRecent(donations, SuccessRows, Cardinality(SuccessRows))

\* findMany: the first 50 of the success rows, newest first
FindManyRecent == TakeRecent(donations, SuccessRows, RecentTake)

\* --------------------------------------------- POST /paystack/webhook
\* data.amount of a notification, the sum the provider reports as paid, in
\* kobo: the pledge of 500 paid in full, or a smaller sum
PaidAmounts == {Num(50000), Num(100)}

\* req.body of a notification: an event name and, usually, data with the
\* reference and the amount paid
WebhookBodies ==
    { [event |-> e, data |-> d] :
        e \in {"charge.success", "charge.failed"},
        d \in {Undefined} \cup
              { [t |-> "object", reference |-> r, amount |-> a] :
                  r \in StoredRefs \cup {ForeignRef}, a \in PaidAmounts } }

OtherEvent(body) ==
    [body EXCEPT !.event = IF @ = "charge.success" THEN "charge.failed" ELSE "charge.success"]

\* req.headers['x-paystack-signature'] as a sender may set it: the provider's
\* digest of this body, a digest under another key, the provider's digest of
\* another body, or no header
SignaturesFor(body) ==
    { Hmac(ProviderKey, JsonStringify(body)),
      Hmac(ForgedKey, JsonStringify(body)),
      Hmac(ProviderKey, JsonStringify(OtherEvent(body))),
      Undefined }

\* the positions at which a webhook handler has answered: the signature did
\* not match, the event was not charge.success, the catch block ran, or the
\* broadcast was made
WebhookFinal == {"rejected", "ignored", "caught", "acked"}

\* res.sendStatus(200) ends the request: request and locals are released
WebhookAnswered(h, at) ==
    [IdleWebhook EXCEPT !.pc = at, !.res = 200, !.reference = wh[h].reference]

\* WebhookCaught answering 500 from the catch block
WebhookCaughtAnswers500(h, message) ==
    [WebhookAnswered(h, "caught") EXCEPT !.message = message, !.res = 500]

\* the catch block: console.error(error.message), res.sendStatus(200)
WebhookCaught(h, message) == [WebhookAnswered(h, "caught") EXCEPT !.message = message]

\* hash == req.headers['x-paystack-signature'], once the digest is computed
SignatureMatches(key, body, sig) == LooseEq(Hmac(key, JsonStringify(body)), sig)

\* WebhookStart without the comparison of the digest with the header
WebhookStartUnverified(h, body, sig) ==
    /\ wh[h].pc = "idle"
    /\ h > 1 => wh[h - 1].pc # "idle"
    /\ wh' = [wh EXCEPT ![h] =
         IF HmacThrows(secret)
         THEN WebhookCaught(h, "TypeError")
         ELSE IF body.event # "charge.success"
         THEN WebhookAnswered(h, "ignored")
         ELSE IF body.data.t = "undefined"
         THEN WebhookCaught(h, "TypeError")
         ELSE [@ EXCEPT !.pc = "update", !.body = body, !.sig = sig,
                        !.reference = body.data.reference]]
    /\ UNCHANGED <<donations, events, now, secret, dn, gs, sockets, received>>

\* WebhookStart without the test of the event type
WebhookStartAnyEvent(h, body, sig) ==
    /\ wh[h].pc = "idle"
    /\ h > 1 => wh[h - 1].pc # "idle"
    /\ wh' = [wh EXCEPT ![h] =
         IF HmacThrows(secret)
         THEN WebhookCaught(h, "TypeError")
         ELSE IF ~SignatureMatches(secret, body, sig)
         THEN WebhookAnswered(h, "rejected")
         ELSE IF body.data.t = "undefined"
         THEN WebhookCaught(h, "TypeError")
         ELSE [@ EXCEPT !.pc = "update", !.body = body, !.sig = sig,
                        !.reference = body.data.reference]]
    /\ UNCHANGED <<donations, events, now, secret, dn, gs, sockets, received>>

\* a notification reaches the handler, which runs to its first await: digest,
\* comparison, event type, data.reference; a throw (no secret, no data) lands
\* in the catch block
WebhookStart(h, body, sig) ==
    /\ wh[h].pc = "idle"
    /\ h > 1 => wh[h - 1].pc # "idle"
    /\ wh' = [wh EXCEPT ![h] =
         IF HmacThrows(secret)
         THEN WebhookCaught(h, "TypeError")
         ELSE IF ~SignatureMatches(secret, body, sig)
         THEN WebhookAnswered(h, "rejected")
         ELSE IF body.event # "charge.success"
         THEN WebhookAnswered(h, "ignored")
         ELSE IF body.data.t = "undefined"
         THEN WebhookCaught(h, "TypeError")
         ELSE [@ EXCEPT !.pc = "update", !.body = body, !.sig = sig,
                        !.reference = body.data.reference]]
    /\ UNCHANGED <<donations, events, now, secret, dn, gs, sockets, received>>

\* WebhookUpdate written as an upsert: a missing row is created as paid
WebhookUpsert(h) ==
    /\ wh[h].pc = "update"
    /\ LET row == IF wh[h].reference \in StoredRefs
                  THEN [donations[RowOf(wh[h].reference)] EXCEPT !.status = "success"]
                  ELSE [amount |-> 0, email |-> Str(<<>>), donorName |-> Anonymous,
                        comment |-> Null, reference |-> wh[h].reference,
                        status |-> "success", createdAt |-> now]
       IN /\ donations' = IF wh[h].reference \in StoredRefs
                          THEN [donations EXCEPT ![RowOf(wh[h].reference)] = row]
                          ELSE Append(donations, row)
          /\ wh' = [wh EXCEPT ![h] =
                      [@ EXCEPT !.pc = "aggregate", !.updatedDonation = row]]
    /\ UNCHANGED <<events, now, secret, dn, gs, sockets, received>>

\* WebhookUpdate that returns the row as paid without writing it
WebhookUpdateNoWrite(h) ==
    /\ wh[h].pc = "update"
    /\ IF wh[h].reference \in StoredRefs
       THEN LET i == RowOf(wh[h].reference)
                row == [donations[i] EXCEPT !.status = "success"]
            IN /\ donations' = donations
               /\ wh' = [wh EXCEPT ![h] =
                           [@ EXCEPT !.pc = "aggregate", !.updatedDonation = row]]
       ELSE /\ donations' = donations
            /\ wh' = [wh EXCEPT ![h] = WebhookCaught(h, "RecordNotFound")]
    /\ UNCHANGED <<events, now, secret, dn, gs, sockets, received>>

\* WebhookUpdate as an updateMany whose where clause matches every row
WebhookUpdateMany(h) ==
    /\ wh[h].pc = "update"
    /\ IF wh[h].reference \in StoredRefs
       THEN LET i == RowOf(wh[h].reference)
                row == [donations[i] EXCEPT !.status = "success"]
            IN /\ donations' = [j \in DOMAIN donations |->
                                  [donations[j] EXCEPT !.status = "success"]]
               /\ wh' = [wh EXCEPT ![h] =
                           [@ EXCEPT !.pc = "aggregate", !.updatedDonation = row]]
       ELSE /\ donations' = donations
            /\ wh' = [wh EXCEPT ![h] = WebhookCaught(h, "RecordNotFound")]
    /\ UNCHANGED <<events, now, secret, dn, gs, sockets, received>>

\* WebhookUpdate that also stores the amount the notification reports
WebhookUpdateTrustsPayload(h) ==
    /\ wh[h].pc = "update"
    /\ IF wh[h].reference \in StoredRefs
       THEN LET i == RowOf(wh[h].reference)
                row == [donations[i] EXCEPT !.status = "success",
                                            !.amount = wh[h].body.data.amount.n]
            IN /\ donations' = [donations EXCEPT ![i] = row]
               /\ wh' = [wh EXCEPT ![h] =
                           [@ EXCEPT !.pc = "aggregate", !.updatedDonation = row]]
       ELSE /\ donations' = donations
            /\ wh' = [wh EXCEPT ![h] = WebhookCaught(h, "RecordNotFound")]
    /\ UNCHANGED <<events, now, secret, dn, gs, sockets, received>>

\* prisma.donation.update({where: {reference}, data: {status: 'success'}})
\* a missing row makes update throw
WebhookUpdate(h) ==
    /\ wh[h].pc = "update"
    /\ IF wh[h].reference \in StoredRefs
       THEN LET i == RowOf(wh[h].reference)
                row == [donations[i] EXCEPT !.status = "success"]
            IN /\ donations' = [donations EXCEPT ![i] = row]
               /\ wh' = [wh EXCEPT ![h] =
                           [@ EXCEPT !.pc = "aggregate", !.updatedDonation = row]]
       ELSE /\ donations' = donations
            /\ wh' = [wh EXCEPT ![h] = WebhookCaught(h, "RecordNotFound")]
    /\ UNCHANGED <<events, now, secret, dn, gs, sockets, received>>

\* the update is rejected by the store (connection lost, timeout)
WebhookUpdateFails(h) ==
    /\ wh[h].pc = "update"
    /\ wh' = [wh EXCEPT ![h] = WebhookCaught(h, "StorageError")]
    /\ UNCHANGED <<donations, events, now, secret, dn, gs, sockets, received>>

\* the aggregate query after the update
WebhookAggregate(h) ==
    /\ wh[h].pc = "aggregate"
    /\ wh' = [wh EXCEPT ![h] = [@ EXCEPT !.pc = "emit", !.total = AggregateSum(donations)]]
    /\ UNCHANGED <<donations, events, now, secret, dn, gs, sockets, received>>

WebhookAggregateFails(h) ==
    /\ wh[h].pc = "aggregate"
    /\ wh' = [wh EXCEPT ![h] = WebhookCaught(h, "StorageError")]
    /\ UNCHANGED <<donations, events, now, secret, dn, gs, sockets, received>>

\* NewDonation reporting the donation's own amount as the total
NewDonationOwnAmount(h) ==
    [donorName |-> wh[h].updatedDonation.donorName,
     amount |-> wh[h].updatedDonation.amount,
     comment |-> wh[h].updatedDonation.comment,
     totalRaised |-> Num(wh[h].updatedDonation.amount)]

\* io.emit('new_donation', {...}); res.sendStatus(200)
NewDonation(h) ==
    [donorName |-> wh[h].updatedDonation.donorName,
     amount |-> wh[h].updatedDonation.amount,
     comment |-> wh[h].updatedDonation.comment,
     totalRaised |-> wh[h].total]

\* IoEmit reaching every socket the server has ever accepted
IoEmitToAll(payload) ==
    [s \in Sessions |->
        IF sockets[s] # "new" THEN Append(received[s], payload) ELSE received[s]]

\* io.emit(name, payload) on a Server without connection state recovery: the
\* payload is written to the sockets connected now and kept nowhere;
\* received is what each viewer's socket has been sent
IoEmit(payload) ==
    [s \in Sessions |->
        IF sockets[s] = "connected" THEN Append(received[s], payload) ELSE received[s]]

WebhookEmit(h) ==
    /\ wh[h].pc = "emit"
    /\ events' = Append(events, NewDonation(h))
    /\ received' = IoEmit(NewDonation(h))
    /\ wh' = [wh EXCEPT ![h] = WebhookAnswered(h, "acked")]
    /\ UNCHANGED <<donations, now, secret, dn, gs, sockets>>


\* ------------------------------------------------------------ POST /donate
\* the validation of lines 80-81
DonateRejects(body) ==
    \/ ~Truthy(body.amount) \/ LessThan(body.amount, MinDonation)
    \/ ~Truthy(body.email)

\* NewDonationRow storing the row as already paid
NewDonationRowPaid(body, reference, time) ==
    [amount |-> ParseFloat(body.amount).n,
     email |-> body.email,
     donorName |-> OrElse(body.name, Anonymous),
     comment |-> OrElse(body.comment, Null),
     reference |-> reference,
     status |-> "success",
     createdAt |-> time]

\* the data of prisma.donation.create; createdAt is the store's default
NewDonationRow(body, reference, time) ==
    [amount |-> ParseFloat(body.amount).n,
     email |-> body.email,
     donorName |-> OrElse(body.name, Anonymous),
     comment |-> OrElse(body.comment, Null),
     reference |-> reference,
     status |-> "pending",
     createdAt |-> time]

\* the request reaches the handler: validation, then the reference is built
\* and the handler awaits the create
DonateStart(d, body) ==
    /\ dn[d].pc = "idle"
    /\ d > 1 => dn[d - 1].pc # "idle"
    /\ IF DonateRejects(body)
       THEN dn' = [dn EXCEPT ![d] =
                     [@ EXCEPT !.pc = "done", !.res = 400,
                               !.json = [error |-> TRUE]]]
       ELSE \E rnd \in RandomSuffixes :
               dn' = [dn EXCEPT ![d] =
                        [@ EXCEPT !.pc = "create", !.body = body,
                                  !.reference = MakeReference(now, rnd)]]
    /\ UNCHANGED <<donations, events, now, secret, wh, gs, sockets, received>>

\* DonateCreate on a table without the unique constraint on reference
DonateCreateNoUnique(d) ==
    /\ dn[d].pc = "create"
    /\ donations' = Append(donations,
                           NewDonationRow(dn[d].body, dn[d].reference, now))
    /\ dn' = [dn EXCEPT ![d] =
                [@ EXCEPT !.pc = "done", !.res = 200, !.body = Undefined,
                          !.json = [reference |-> dn[d].reference]]]
    /\ UNCHANGED <<events, now, secret, wh, gs, sockets, received>>

\* prisma.donation.create: the unique constraint on reference rejects a
\* second row with a reference already stored
DonateCreate(d) ==
    /\ dn[d].pc = "create"
    /\ IF dn[d].reference \notin StoredRefs
       THEN /\ donations' = Append(donations,
                                   NewDonationRow(dn[d].body, dn[d].reference, now))
            /\ dn' = [dn EXCEPT ![d] =
                        [@ EXCEPT !.pc = "done", !.res = 200, !.body = Undefined,
                                  !.json = [reference |-> dn[d].reference]]]
       ELSE /\ donations' = donations
            /\ dn' = [dn EXCEPT ![d] =
                        [@ EXCEPT !.pc = "done", !.res = 500, !.body = Undefined, !.json = [error |-> TRUE]]]
    /\ UNCHANGED <<events, now, secret, wh, gs, sockets, received>>

\* DonateCreateFails after the row was written: the write fails half-way
DonateCreateFailsPartial(d) ==
    /\ dn[d].pc = "create"
    /\ donations' = Append(donations,
                           NewDonationRow(dn[d].body, dn[d].reference, now))
    /\ dn' = [dn EXCEPT ![d] =
                [@ EXCEPT !.pc = "done", !.res = 500, !.body = Undefined, !.json = [error |-> TRUE]]]
    /\ UNCHANGED <<events, now, secret, wh, gs, sockets, received>>

\* the create is rejected by the store for another reason
DonateCreateFails(d) ==
    /\ dn[d].pc = "create"
    /\ dn' = [dn EXCEPT ![d] =
                [@ EXCEPT !.pc = "done", !.res = 500, !.body = Undefined, !.json = [error |-> TRUE]]]
    /\ UNCHANGED <<donations, events, now, secret, wh, gs, sockets, received>>

\* ------------------------------------------------------------------ GET /
\* the request is dispatched and the aggregate query answers
GetAggregate(g) ==
    /\ gs[g].pc = "idle"
    /\ g > 1 => gs[g - 1].pc # "idle"
    /\ gs' = [gs EXCEPT ![g] = [@ EXCEPT !.pc = "findMany", !.total = AggregateSum(donations)]]
    /\ UNCHANGED <<donations, events, now, secret, wh, dn, sockets, received>>

\* findMany answers, then res.render with raised: total._sum.amount || 0
GetFindMany(g) ==
    /\ gs[g].pc = "findMany"
    /\ \E recent \in FindManyRecent :
          gs' = [gs EXCEPT ![g] =
                   [@ EXCEPT !.pc = "done", !.recentDonations = recent, !.total = Undefined,
                             !.raised = OrElse(gs[g].total, Num(0)), !.res = 200]]
    /\ UNCHANGED <<donations, events, now, secret, wh, dn, sockets, received>>

\* either query fails: the catch block answers 500
GetFails(g) ==
    /\ gs[g].pc \in {"idle", "findMany"}
    /\ g > 1 => gs[g - 1].pc # "idle"
    /\ gs' = [gs EXCEPT ![g] = [IdleGet EXCEPT !.pc = "done", !.res = 500]]
    /\ UNCHANGED <<donations, events, now, secret, wh, dn, sockets, received>>

\* ------------------------------------------------------------- viewers
\* a viewer's page opens a socket: the server accepts it under a new id, and
\* nothing is sent on connection (the server registers no connection handler)
Connect(s) ==
    /\ sockets[s] = "new"
    /\ s > 1 => sockets[s - 1] # "new"
    /\ sockets' = [sockets EXCEPT ![s] = "connected"]
    /\ UNCHANGED <<donations, events, now, secret, wh, dn, gs, received>>

\* the viewer leaves or the connection drops: the socket is closed for good
\* (a viewer who comes back gets a new socket)
Disconnect(s) ==
    /\ sockets[s] = "connected"
    /\ sockets' = [sockets EXCEPT ![s] = "closed"]
    /\ UNCHANGED <<donations, events, now, secret, wh, dn, gs, received>>

\* the clock advances
Tick ==
    /\ now < MaxTime
    /\ now' = now + 1
    /\ UNCHANGED <<donations, events, secret, wh, dn, gs, sockets, received>>

\* ------------------------------------------------------------ the system
\* pledge creation alone
NextPledge ==
    \/ Tick
    \/ \E d \in Donates : \E body \in DonateBodies : DonateStart(d, body)
    \/ \E d \in Donates : DonateCreate(d)
    \/ \E d \in Donates : DonateCreateFails(d)

\* the steps of the webhook handlers
NextWebhook ==
    \/ \E h \in Webhooks : \E body \in WebhookBodies : \E sig \in SignaturesFor(body) :
          WebhookStart(h, body, sig)
    \/ \E h \in Webhooks : WebhookUpdate(h)
    \/ \E h \in Webhooks : WebhookUpdateFails(h)
    \/ \E h \in Webhooks : WebhookAggregate(h)
    \/ \E h \in Webhooks : WebhookAggregateFails(h)
    \/ \E h \in Webhooks : WebhookEmit(h)

\* the steps of the GET / handlers
NextSummary ==
    \/ \E g \in Gets : GetAggregate(g)
    \/ \E g \in Gets : GetFindMany(g)
    \/ \E g \in Gets : GetFails(g)

\* viewers come and go
NextViewers ==
    \/ \E s \in Sessions : Connect(s)
    \/ \E s \in Sessions : Disconnect(s)

\* the ledger: pledges and their confirmation, no page views
NextLedger == NextPledge \/ NextWebhook

Next == NextPledge \/ NextWebhook \/ NextSummary

Spec == Init /\ [][Next]_vars
SpecLedger == Init /\ [][NextLedger]_vars
SpecPledge == Init /\ [][NextPledge]_vars

\* the ledger with viewers connected to the live channel
SpecBroadcast == Init /\ [][NextLedger \/ NextViewers]_vars

\* page views alone, on a store that holds rows of earlier runs
SpecSummary == InitSeeded /\ [][NextSummary]_vars

\* an awaited store call settles (it answers or it rejects) and the event
\* loop then runs the handler's continuation: a handler that can step does
WebhookStep(h) ==
    \/ WebhookUpdate(h) \/ WebhookUpdateFails(h)
    \/ WebhookAggregate(h) \/ WebhookAggregateFails(h)
    \/ WebhookEmit(h)
SpecLedgerFair == SpecLedger /\ \A h \in Webhooks : WF_vars(WebhookStep(h))

TypeOK ==
    /\ \A i \in DOMAIN donations : donations[i].status \in {"pending", "success"}
    /\ now \in 1..MaxTime \cup {SeedRows + 1}


\* ============================================================ properties
\* the sum of amount over the success rows, each row counted once
RECURSIVE SumRows(_, _)
SumRows(rows, ix) ==
    IF ix = {} THEN 0
    ELSE LET i == CHOOSE j \in ix : TRUE
         IN rows[i].amount + SumRows(rows, ix \ {i})
SumOfSuccess(rows) == SumRows(rows, {i \in DOMAIN rows : rows[i].status = "success"})

PendingRefs == {donations[i].reference : i \in {j \in DOMAIN donations : donations[j].status = "pending"}}
SuccessRefs == {donations[i].reference : i \in SuccessRows}

\* C1: two deliveries of the validly signed notification for one reference
\* publish one event between them: no two handlers that ended by
\* broadcasting carry the same reference.
C1_ReplayPublishesOnce ==
    \A g, h \in Webhooks :
        (g # h /\ wh[g].pc = "acked" /\ wh[h].pc = "acked")
            => wh[g].reference # wh[h].reference

\* C2: of two handlers running at the same time for the same reference at
\* most one gets past the status update to the broadcast: never are both
\* holding an aggregate to broadcast for that reference.
C2_AtMostOneWinner ==
    \A g, h \in Webhooks :
        (g # h /\ wh[g].pc = "emit" /\ wh[h].pc = "emit")
            => wh[g].reference # wh[h].reference

\* the header equals the HMAC of the body under the shared secret
ValidlySigned(body, sig) ==
    secret.t = "string"
    /\ sig.t = "string"
    /\ sig.s = <<"hmac-sha512", secret.s, JsonStringify(body)>>

\* C3: a webhook request whose signature header is not the HMAC of its body
\* under the shared secret is answered without any change to the records or
\* to the published events, and its handler never acts again.
C3_InvalidSignatureNoEffect ==
    [][\A h \in Webhooks :
         /\ \A body \in WebhookBodies : \A sig \in SignaturesFor(body) :
               (WebhookStart(h, body, sig) /\ ~ValidlySigned(body, sig))
                  => /\ wh'[h].pc \in {"rejected", "caught"}
                     /\ wh'[h].res = 200
                     /\ donations' = donations
                     /\ events' = events
         /\ wh[h].pc \in {"rejected", "caught"} => wh'[h] = wh[h]]_vars

\* a forged notification for a pending record has been answered: the record
\* is still pending and nothing was published
C3_Witness ==
    /\ secret.t = "string"
    /\ \E h \in Webhooks : wh[h].pc = "rejected"
    /\ PendingRefs # {}
    /\ events = <<>>


\* C4: every record's status is pending or success in every reachable state;
\* a record enters the store as pending; and in any step of pledge creation,
\* webhook delivery or summary read a record already stored keeps its status
\* or goes from pending to success, so a success record never becomes
\* pending again.
C4_StatusMachine ==
    /\ [](\A i \in DOMAIN donations : donations[i].status \in {"pending", "success"})
    /\ [][/\ Len(donations') >= Len(donations)
          /\ \A i \in DOMAIN donations' :
                IF i \in DOMAIN donations
                THEN /\ donations'[i].reference = donations[i].reference
                     /\ \/ donations'[i].status = donations[i].status
                        \/ /\ donations[i].status = "pending"
                           /\ donations'[i].status = "success"
                ELSE donations'[i].status = "pending"]_vars

\* a confirmed record was notified again and read by the summary while
\* another record is still pending
C4_Witness ==
    /\ SuccessRows # {}
    /\ PendingRefs # {}
    /\ \E g \in Gets : gs[g].pc = "done" /\ gs[g].res = 200
    /\ \A h \in Webhooks : wh[h].pc = "acked"


\* C5: every webhook request that reaches the handler is eventually answered,
\* and the answer is always 200: after a signature mismatch, another event
\* type, an unknown reference, a failed update or a failed aggregate query
\* alike.
C5_AlwaysAcknowledged ==
    /\ [](\A h \in Webhooks :
            /\ wh[h].pc \in {"idle", "update", "aggregate", "emit"} \cup WebhookFinal
            /\ wh[h].pc \in WebhookFinal <=> wh[h].res = 200
            /\ wh[h].pc \notin WebhookFinal => wh[h].res = 0)
    /\ \A h \in Webhooks :
          (wh[h].pc # "idle") ~> (wh[h].pc \in WebhookFinal /\ wh[h].res = 200)

\* one notification was answered after its aggregate query failed on a
\* confirmed record, another after its signature did not match
C5_Witness ==
    /\ \E h \in Webhooks :
          wh[h].pc = "caught" /\ wh[h].message = "StorageError" /\ wh[h].res = 200
    /\ \E h \in Webhooks : wh[h].pc = "rejected" /\ wh[h].res = 200
    /\ SuccessRows # {}
    /\ events = <<>>


\* C6: a validly signed charge.success notification whose reference matches
\* no stored record passes verification, fails the lookup, and is answered
\* 200 from the catch block: no record is created or changed, nothing is
\* published, and the aggregate is what it was.
C6_UnknownReferenceNoOp ==
    [][\A h \in Webhooks :
         /\ \A body \in WebhookBodies : \A sig \in SignaturesFor(body) :
               (/\ WebhookStart(h, body, sig)
                /\ ValidlySigned(body, sig)
                /\ body.event = "charge.success"
                /\ body.data.t = "object"
                /\ body.data.reference \notin StoredRefs)
                  => /\ wh'[h].pc = "update"
                     /\ wh'[h].reference = body.data.reference
                     /\ donations' = donations
                     /\ events' = events
         /\ (/\ wh[h].pc = "update"
             /\ wh[h].reference \notin StoredRefs
             /\ wh'[h] # wh[h])
               => /\ wh'[h].pc = "caught"
                  /\ wh'[h].res = 200
                  /\ donations' = donations
                  /\ events' = events
                  /\ AggregateSum(donations') = AggregateSum(donations)]_vars

\* a notification for a foreign reference was answered after the lookup
\* failed, while the store holds a pending record
C6_Witness ==
    /\ \E h \in Webhooks :
          /\ wh[h].pc = "caught"
          /\ wh[h].message = "RecordNotFound"
          /\ wh[h].reference = ForeignRef
          /\ wh[h].res = 200
    /\ PendingRefs # {}
    /\ SuccessRows = {}
    /\ events = <<>>

\* C7: the total GET / returns is the sum of amount over exactly the success
\* records of the store at the moment its aggregate query ran, 0 when there
\* was none; pending records add nothing and a record notified twice is
\* counted once.
C7_SummaryIsSuccessSum ==
    [][\A g \in Gets :
         /\ (gs[g].pc = "idle" /\ gs'[g].pc = "findMany")
               => OrElse(gs'[g].total, Num(0)) = Num(SumOfSuccess(donations))
         /\ (gs[g].pc = "findMany" /\ gs'[g].pc = "done" /\ gs'[g].res = 200)
               => /\ gs'[g].raised.t = "number"
                  /\ gs'[g].raised = OrElse(gs[g].total, Num(0))]_vars

\* the page shows the amount of the one confirmed record, which was notified
\* twice, while another record is pending
C7_Witness ==
    /\ \E g \in Gets :
          /\ gs[g].pc = "done" /\ gs[g].res = 200
          /\ gs[g].raised = Num(SumOfSuccess(donations))
    /\ Cardinality(SuccessRows) = 1
    /\ PendingRefs # {}
    /\ Len(events) = 2

\* C8: the first validly signed charge.success notification for a pending
\* record R of amount a that meets no storage failure sets R to success,
\* which raises the success sum by exactly a; reads the new sum; and
\* publishes exactly one event, with amount a and totalRaised the sum read.
C8_FirstConfirmation ==
    [][\A h \in Webhooks :
         /\ \A body \in WebhookBodies : \A sig \in SignaturesFor(body) :
               (/\ WebhookStart(h, body, sig)
                /\ ValidlySigned(body, sig)
                /\ body.event = "charge.success"
                /\ body.data.t = "object")
                  => wh'[h].pc = "update" /\ wh'[h].reference = body.data.reference
         /\ (/\ wh[h].pc = "update"
             /\ wh[h].reference \in PendingRefs
             /\ wh'[h].pc \notin {"update", "caught"})
               => /\ wh'[h].pc = "aggregate"
                  /\ donations'[RowOf(wh[h].reference)].status = "success"
                  /\ SumOfSuccess(donations')
                        = SumOfSuccess(donations) + donations[RowOf(wh[h].reference)].amount
                  /\ events' = events
         /\ (wh[h].pc = "aggregate" /\ wh'[h].pc \notin {"aggregate", "caught"})
               => /\ wh'[h].pc = "emit"
                  /\ wh[h].reference \in SuccessRefs
                  /\ wh'[h].total = Num(SumOfSuccess(donations))
                  /\ events' = events
         /\ (wh[h].pc = "emit" /\ wh'[h] # wh[h])
               => /\ wh'[h].pc = "acked"
                  /\ Len(events') = Len(events) + 1
                  /\ SubSeq(events', 1, Len(events)) = events
                  /\ events'[Len(events')].amount = donations[RowOf(wh[h].reference)].amount
                  /\ events'[Len(events')].totalRaised = wh[h].total
                  /\ donations' = donations]_vars

\* the pledge of 500 was confirmed by one notification: the record is
\* success and the one event carries amount 500 and total 500
C8_Witness ==
    /\ \E h \in Webhooks :
          /\ wh[h].pc = "acked"
          /\ wh[h].reference \in SuccessRefs
          /\ donations[RowOf(wh[h].reference)].amount = 500
    /\ Len(events) = 1
    /\ events[1].amount = 500
    /\ events[1].totalRaised = Num(500)
    /\ SumOfSuccess(donations) = 500


\* a request body with a non-empty email and an amount at or above the minimum
ValidPledge(body) ==
    /\ body.email.t = "string" /\ Len(body.email.s) > 0
    /\ ToNumber(body.amount).t = "number"
    /\ ToNumber(body.amount).n >= MinDonation

IssuedRefs == {dn[d].json.reference : d \in {e \in Donates : dn[e].pc = "done" /\ dn[e].res = 200}}

\* C9: a POST /donate with a non-empty email and an amount of at least 100
\* is accepted, and when its write succeeds exactly one record is added, as
\* pending, under the returned reference, which no earlier record or answer
\* carries; when the write does not succeed no record is added.
C9_FreshPendingPledge ==
    [][\A d \in Donates :
         /\ \A body \in DonateBodies :
               (DonateStart(d, body) /\ ValidPledge(body))
                  => dn'[d].pc = "create" /\ donations' = donations
         /\ (dn[d].pc = "create" /\ dn'[d].pc = "done" /\ dn'[d].res = 200)
               => /\ Len(donations') = Len(donations) + 1
                  /\ SubSeq(donations', 1, Len(donations)) = donations
                  /\ donations'[Len(donations')].status = "pending"
                  /\ donations'[Len(donations')].reference = dn'[d].json.reference
                  /\ dn'[d].json.reference \notin StoredRefs
                  /\ dn'[d].json.reference \notin IssuedRefs
         /\ (dn[d].pc = "create" /\ dn'[d].pc = "done" /\ dn'[d].res # 200)
               => donations' = donations]_vars

\* two pledges were accepted and stored: two pending records under two
\* different references
C9_Witness ==
    /\ Len(donations) = 2
    /\ donations[1].reference # donations[2].reference
    /\ \A i \in DOMAIN donations : donations[i].status = "pending"
    /\ \A d \in Donates : dn[d].pc = "done" /\ dn[d].res = 200

\* C10: two POST /donate handlers in flight at the same time never hold the
\* same reference, also when both read the same Date.now().
C10_DistinctReferences ==
    \A d, e \in Donates :
        (d # e /\ dn[d].pc = "create" /\ dn[e].pc = "create")
            => dn[d].reference # dn[e].reference

\* the amount a pledge would be stored with: parseFloat(amount)
PledgedAmount(body) == ParseFloat(body.amount)

AmountMissing(body) ==
    \/ body.amount.t \in {"undefined", "null"}
    \/ body.amount.t = "string" /\ Len(body.amount.s) = 0
AmountBelowMinimum(body) ==
    PledgedAmount(body).t = "number" /\ PledgedAmount(body).n < MinDonation
EmailMissing(body) ==
    \/ body.email.t \in {"undefined", "null"}
    \/ body.email.t = "string" /\ Len(body.email.s) = 0

\* C11: a POST /donate whose amount is missing or below the minimum of 100,
\* or whose email is missing or empty, is answered 400 with an error and
\* leaves the store as it was; no record with an amount below the minimum is
\* ever created.
C11_InvalidPledgeRefused ==
    [][/\ \A d \in Donates : \A body \in DonateBodies :
            (/\ DonateStart(d, body)
             /\ (AmountMissing(body) \/ AmountBelowMinimum(body) \/ EmailMissing(body)))
               => /\ dn'[d].pc = "done"
                  /\ dn'[d].res = 400
                  /\ dn'[d].json = [error |-> TRUE]
                  /\ donations' = donations
       /\ \A i \in DOMAIN donations' :
            i \notin DOMAIN donations => donations'[i].amount >= MinDonation]_vars

\* C12: when the create of POST /donate fails, for a duplicate reference or
\* for any other reason, the answer is 500 with an error and no reference,
\* and the store is what it was: no row was added or changed.
C12_FailedWriteLeavesNothing ==
    [][\A d \in Donates :
         /\ (DonateCreate(d) /\ dn[d].reference \in StoredRefs)
               => dn'[d].pc = "done" /\ dn'[d].res = 500
         /\ DonateCreateFails(d)
               => dn'[d].pc = "done" /\ dn'[d].res = 500
         /\ (dn[d].pc = "create" /\ dn'[d].pc = "done" /\ dn'[d].res # 200)
               => /\ dn'[d].res = 500
                  /\ dn'[d].json = [error |-> TRUE]
                  /\ donations' = donations]_vars

\* two pledges drew the same reference: the first was stored and answered
\* with it, the second was answered 500 and the store holds the one row
C12_Witness ==
    /\ \E d, e \in Donates :
          /\ d # e
          /\ dn[e].pc = "done" /\ dn[e].res = 200
          /\ dn[d].pc = "done" /\ dn[d].res = 500 /\ dn[d].json = [error |-> TRUE]
          /\ dn[e].json.reference = dn[d].reference
    /\ Len(donations) = 1

\* C13: a validly signed notification whose event is not charge.success is
\* answered at once: no record changes and nothing is published, whether its
\* reference names a pending record, a confirmed one or none, and its handler
\* never acts again.
C13_OtherEventNoEffect ==
    [][\A h \in Webhooks :
         /\ \A body \in WebhookBodies : \A sig \in SignaturesFor(body) :
               (/\ WebhookStart(h, body, sig)
                /\ ValidlySigned(body, sig)
                /\ body.event # "charge.success")
                  => /\ wh'[h].pc = "ignored"
                     /\ wh'[h].res = 200
                     /\ donations' = donations
                     /\ events' = events
         /\ wh[h].pc = "ignored" => wh'[h] = wh[h]]_vars

\* a charge.failed notification was answered while the store holds a pending
\* record: the record is still pending and nothing was published
C13_Witness ==
    /\ \E h \in Webhooks : wh[h].pc = "ignored" /\ wh[h].res = 200
    /\ PendingRefs # {}
    /\ SuccessRows = {}
    /\ events = <<>>
    /\ \A h \in Webhooks : wh[h].pc \in {"ignored", "idle"}

\* C14: a 'new_donation' event is published only for a record that is
\* already success in the store: a handler that is past the update, reading
\* the aggregate or about to publish, holds the reference of a success
\* record; the total it reads is the sum over the records that are success at
\* that moment, the announced record among them; and the event published
\* carries that total and the record's amount.
C14_PublishedAfterSuccess ==
    /\ [](\A h \in Webhooks :
            wh[h].pc \in {"aggregate", "emit"}
               => /\ wh[h].reference \in SuccessRefs
                  /\ wh[h].reference \notin PendingRefs
                  /\ wh[h].updatedDonation.status = "success")
    /\ [][\A h \in Webhooks :
            /\ (wh[h].pc = "aggregate" /\ wh'[h].pc = "emit")
                  => /\ RowOf(wh[h].reference) \in SuccessRows
                     /\ wh'[h].total =
                           Num(SumRows(donations, SuccessRows \ {RowOf(wh[h].reference)})
                               + donations[RowOf(wh[h].reference)].amount)
            /\ (wh[h].pc = "emit" /\ wh'[h].pc = "acked")
                  => /\ donations[RowOf(wh[h].reference)].status = "success"
                     /\ events' = Append(events,
                           [donorName |-> donations[RowOf(wh[h].reference)].donorName,
                            amount |-> donations[RowOf(wh[h].reference)].amount,
                            comment |-> donations[RowOf(wh[h].reference)].comment,
                            totalRaised |-> wh[h].total])
            /\ Len(events') > Len(events) => wh[h].pc = "emit" \/ wh'[h] = wh[h]]_vars

\* one record was announced with its amount as the total while a second
\* record, still pending, was never announced
C14_Witness ==
    /\ Len(events) = 1
    /\ Cardinality(SuccessRows) = 1
    /\ PendingRefs # {}
    /\ \E i \in SuccessRows : events[1].totalRaised = Num(donations[i].amount)
    /\ \E h \in Webhooks : wh[h].pc = "acked" /\ wh[h].reference \in SuccessRefs
    /\ \A h \in Webhooks : wh[h].pc = "acked" => wh[h].reference \notin PendingRefs

\* C15: the confirmation writes the status of the one record that carries
\* the notified reference and nothing else: that record keeps its reference,
\* amount, email, donorName, comment and createdAt, every other record is
\* unchanged, and no step of any route removes a record or changes a field
\* other than status.
C15_OnlyStatusChanges ==
    [][/\ Len(donations') >= Len(donations)
       /\ \A i \in DOMAIN donations :
             donations'[i] = [donations[i] EXCEPT !.status = donations'[i].status]
       /\ \A h \in Webhooks :
             (WebhookUpdate(h) /\ wh[h].reference \in StoredRefs)
                => /\ Len(donations') = Len(donations)
                   /\ Cardinality({i \in DOMAIN donations :
                                     donations[i].reference = wh[h].reference}) = 1
                   /\ donations'[RowOf(wh[h].reference)] =
                         [donations[RowOf(wh[h].reference)] EXCEPT !.status = "success"]
                   /\ \A i \in DOMAIN donations :
                         i # RowOf(wh[h].reference) => donations'[i] = donations[i]]_vars

\* of two pledges the anonymous one of 100 was confirmed and announced; it
\* kept its fields, and the pledge of 500 is untouched and still pending
C15_Witness ==
    /\ Len(donations) = 2
    /\ \E i, j \in DOMAIN donations :
          /\ donations[i].status = "success"
          /\ donations[i].amount = 100
          /\ donations[i].email = EmailB
          /\ donations[i].donorName = Anonymous
          /\ donations[i].comment = Null
          /\ donations[j] = NewDonationRow(
                [email |-> EmailA, amount |-> Num(500), name |-> NameAli, comment |-> Dua],
                donations[j].reference, donations[j].createdAt)
          /\ \E h \in Webhooks : wh[h].pc = "acked" /\ wh[h].reference = donations[i].reference
    /\ Len(events) = 1

\* C16: GET / only reads: no step of its handler changes a record or
\* publishes an event; and the list it renders holds success records only,
\* each a row of the store and none twice, at most 50 of them (all of them
\* when there are fewer), newest first by createdAt, and no success record
\* left out is newer than one that is listed.
C16_SummaryReadOnly ==
    [][\A g \in Gets :
         /\ gs'[g] # gs[g] => donations' = donations /\ events' = events
         /\ (gs[g].pc = "findMany" /\ gs'[g].pc = "done" /\ gs'[g].res = 200)
               => LET L == gs'[g].recentDonations
                  IN /\ Len(L) <= 50
                     /\ Len(L) = Min(Cardinality(SuccessRows), 50)
                     /\ \A a \in DOMAIN L :
                           /\ L[a].status = "success"
                           /\ \E i \in SuccessRows : donations[i] = L[a]
                     /\ \A a, b \in DOMAIN L :
                           a < b => L[a].createdAt >= L[b].createdAt /\ L[a] # L[b]
                     /\ \A i \in SuccessRows :
                           (\A a \in DOMAIN L : L[a] # donations[i])
                              => \A a \in DOMAIN L :
                                    L[a].createdAt >= donations[i].createdAt]_vars

\* the store holds more than 50 success records and a pending one: the page
\* lists 50, the newest success record first, the oldest left out
C16_Witness ==
    /\ Cardinality(SuccessRows) > 50
    /\ PendingRefs # {}
    /\ \E g \in Gets :
          /\ gs[g].pc = "done" /\ gs[g].res = 200
          /\ Len(gs[g].recentDonations) = 50
          /\ \A i \in SuccessRows :
                gs[g].recentDonations[1].createdAt >= donations[i].createdAt
          /\ \E i \in SuccessRows :
                \A a \in 1..50 : gs[g].recentDonations[a] # donations[i]

\* C17: a published event goes to the sockets connected at that moment and to
\* no other: a socket receives a payload only in the step that publishes it
\* and only if it is connected then; a socket that connects later starts with
\* nothing and is never sent an earlier event; a closed socket is sent
\* nothing; and the publishing handler goes on to its answer whatever the
\* sockets are.
C17_DeliveredToConnectedOnly ==
    /\ [](\A s \in Sessions :
            /\ sockets[s] = "new" => received[s] = <<>>
            /\ \A k \in DOMAIN received[s] :
                  \E n \in DOMAIN events : events[n] = received[s][k])
    /\ [][/\ \A s \in Sessions :
               /\ (Len(events') > Len(events) /\ sockets[s] = "connected")
                     => received'[s] = Append(received[s], events'[Len(events')])
               /\ (Len(events') > Len(events) /\ sockets[s] # "connected")
                     => received'[s] = received[s]
               /\ Len(events') = Len(events) => received'[s] = received[s]
               /\ sockets'[s] # sockets[s]
                     => received'[s] = received[s] /\ events' = events /\ wh' = wh
          /\ \A h \in Webhooks :
               (wh[h].pc = "emit" /\ wh'[h] # wh[h])
                  => /\ wh'[h].pc = "acked"
                     /\ wh'[h].res = 200
                     /\ events' = Append(events, NewDonation(h))
                     /\ sockets' = sockets]_vars

\* two events were published: the first viewer got the first and had left
\* before the second; the second viewer connected between them and got only
\* the second
C17_Witness ==
    /\ Len(events) = 2
    /\ events[1] # events[2]
    /\ sockets[1] = "closed"
    /\ received[1] = <<events[1]>>
    /\ sockets[2] = "connected"
    /\ received[2] = <<events[2]>>
    /\ \A h \in Webhooks : wh[h].pc = "acked" /\ wh[h].res = 200

\* the references POST /donate can build
PledgeRefs == {MakeReference(t, r) : t \in 1..MaxTime, r \in RandomSuffixes}

\* C18: every record that becomes success is eventually announced: some
\* handler notified of its reference gets to publish the 'new_donation'
\* event, also when the aggregate query after the update fails.
C18_SuccessEventuallyAnnounced ==
    \A r \in PledgeRefs :
        (r \in SuccessRefs) ~> (\E h \in Webhooks : wh[h].pc = "acked" /\ wh[h].reference = r)

\* C19: the sum of amount over the success records never goes down: a step
\* of pledge creation, webhook delivery or summary read leaves it as it is,
\* or raises it by the amount of a record that turns from pending to success
\* in that step.
C19_AggregateNeverDecreases ==
    [][/\ SumOfSuccess(donations') >= SumOfSuccess(donations)
       /\ \/ SumOfSuccess(donations') = SumOfSuccess(donations)
          \/ \E i \in DOMAIN donations :
                /\ donations[i].status = "pending"
                /\ donations'[i].status = "success"
                /\ SumOfSuccess(donations')
                      = SumOfSuccess(donations) + donations[i].amount]_vars

\* C20: the confirmation reads the notification's reference and nothing else
\* of its data: whatever amount the notification reports, the confirmed
\* record keeps the amount it was pledged with, the row handed to the
\* broadcast carries that amount, the total read is the sum of the stored
\* amounts, and the event published carries both.
C20_PledgedAmountKept ==
    [][/\ \A i \in DOMAIN donations : donations'[i].amount = donations[i].amount
       /\ \A h \in Webhooks :
            /\ \A body \in WebhookBodies : \A sig \in SignaturesFor(body) :
                  (/\ WebhookStart(h, body, sig)
                   /\ wh'[h].pc = "update")
                     => /\ wh'[h].reference = body.data.reference
                        /\ wh'[h] = [wh[h] EXCEPT !.pc = "update", !.body = body, !.sig = sig,
                                                  !.reference = body.data.reference]
            /\ (wh[h].pc = "update" /\ wh'[h].pc = "aggregate")
                  => /\ donations'[RowOf(wh[h].reference)].amount
                           = donations[RowOf(wh[h].reference)].amount
                     /\ wh'[h].updatedDonation.amount = donations[RowOf(wh[h].reference)].amount
            /\ (wh[h].pc = "aggregate" /\ wh'[h].pc = "emit")
                  => wh'[h].total = Num(SumOfSuccess(donations))
            /\ (wh[h].pc = "emit" /\ wh'[h].pc = "acked")
                  => /\ events'[Len(events')].amount = donations[RowOf(wh[h].reference)].amount
                     /\ events'[Len(events')].totalRaised = wh[h].total]_vars

\* the provider reported 100 kobo paid for the pledge of 500: the record is
\* success with amount 500, and the handler is about to publish amount 500
\* and total 500
C20_Witness ==
    \E h \in Webhooks :
        /\ wh[h].pc = "emit"
        /\ wh[h].body.data.amount = Num(100)
        /\ wh[h].reference \in SuccessRefs
        /\ donations[RowOf(wh[h].reference)].amount = 500
        /\ NewDonation(h).amount = 500
        /\ NewDonation(h).totalRaised = Num(500)
        /\ SumOfSuccess(donations) = 500

====
